---- MODULE Spec2Model ----
(***************************************************************************)
(* Model of the healthcare service dashboard (src/app.py): the load-and-   *)
(* clean stage (lines 11-37), the derived tables (lines 39-105) and the    *)
(* callbacks (lines 523-750).                                              *)
(*                                                                         *)
(* A DataFrame is a sequence of rows; a row is a record whose fields are   *)
(* the sheet's columns plus idx, the pandas index label of the row.        *)
(* A text cell is a string; the missing marker of pandas is NaN.  A        *)
(* 'Review Count' cell is a tagged record, because the column mixes        *)
(* integers, floats, text and missing cells:                               *)
(*     [k |-> "int",   n |-> v,  s |-> ""]   the integer v                 *)
(*     [k |-> "float", n |-> h,  s |-> ""]   the float h/2                 *)
(*     [k |-> "inf",   n |-> 0,  s |-> ""]   the float +inf                *)
(*     [k |-> "str",   n |-> 0,  s |-> t ]   the text t                    *)
(*     [k |-> "nan",   n |-> 0,  s |-> ""]   a missing cell                *)
(***************************************************************************)
EXTENDS Integers, Sequences, FiniteSets, TLC

VARIABLES
    pc,                      \* how far the script has run
    passes,                  \* how many times lines 17-37 have run over raw_df
    sheet,                   \* Sheet1 of Data/Review_Category_Report.xlsx
    raw_df,                  \* the module-level DataFrame raw_df
    viz_df,                  \* the copy the charts and callbacks read
    company_counts,          \* table 3.1
    reviews_per_type,        \* table 3.2
    company_breakdown,       \* per-category company lists
    category_reviews,        \* review counts per category (line 85)
    reviews_by_type,         \* review counts per category and type (line 86)
    category_dropdown,       \* value of 'category-dropdown'
    breakdown_dropdown,      \* value of 'breakdown-category-dropdown'
    category_pie_chart,      \* figure of 'category-pie-chart'
    company_breakdown_table, \* children of 'company-breakdown-table'
    overview_figures,        \* figures of 'pie-chart' and 'stacked-bar'
    request_queue            \* the browser's callback requests, oldest first

vars == << pc, passes, sheet, raw_df, viz_df, company_counts, reviews_per_type,
           company_breakdown, category_reviews, reviews_by_type,
           category_dropdown, breakdown_dropdown,
           category_pie_chart, company_breakdown_table, overview_figures,
           request_queue >>

\* ---------------------------------------------------------------- bounds

\* Largest number of data rows of the sheet.
MaxRows == 2

\* Largest number of runs of lines 17-37 over the same table.
MaxPasses == 2

\* ---------------------------------------------------------------- cells

NaN == "NaN"

IntCell(v)   == [k |-> "int",   n |-> v, s |-> ""]
FloatCell(h) == [k |-> "float", n |-> h, s |-> ""]
InfCell      == [k |-> "inf",   n |-> 0, s |-> ""]
StrCell(t)   == [k |-> "str",   n |-> 0, s |-> t]
NaNCell      == [k |-> "nan",   n |-> 0, s |-> ""]

\* Python orders strings by code point; the strings the model uses, in that
\* order (groupby sorts its keys, sort=True being the default).
StrOrder ==
    << "", "A", "B", "Billing", "Clinic", "Expensive Costs",
       "Government Hospital", "High-Class Private Hospital", "Hostility",
       "L1", "L2", "Modern/High-Class Private Hospital", "NaN", "Others",
       "Poor Compensation", "Slow Services or Lengthy Waiting Times",
       "Small Private Hospital", "Unavailability of Medication/Equipment",
       "Unavailability of Specialist", "Unavailability of Specialists",
       "Unprofessional Staff" >>

Rank(str) == CHOOSE i \in 1..Len(StrOrder) : StrOrder[i] = str

RECURSIVE SortedSeq(_)
\* The elements of a finite set of strings in ascending order.
SortedSeq(S) ==
    IF S = {} THEN << >>
    ELSE LET m == CHOOSE x \in S : \A y \in S : Rank(x) <= Rank(y)
         IN  << m >> \o SortedSeq(S \ {m})

RECURSIVE SumSeq(_)
SumSeq(q) == IF q = << >> THEN 0 ELSE Head(q) + SumSeq(Tail(q))

Range(q) == { q[i] : i \in 1..Len(q) }

\* ---------------------------------------------------------------- load

excel_path == "Data/Review_Category_Report.xlsx"

\* Strings read_excel turns into NaN (keep_default_na is left at True); an
\* empty cell reaches the parser as "".
na_values == { "", "NaN" }

NaText(t) == IF t \in na_values THEN NaN ELSE t

NaCount(c) == IF c.k = "str" /\ c.s \in na_values THEN NaNCell ELSE c

\* pd.read_excel(excel_path, sheet_name='Sheet1'): one row per data row of the
\* sheet, labelled 0, 1, ... by the default RangeIndex.
read_excel(sh) ==
    [ i \in 1..Len(sh) |->
        [ idx                   |-> i - 1,
          Company_Name          |-> NaText(sh[i].Company_Name),
          Company_Type          |-> NaText(sh[i].Company_Type),
          Company_Location      |-> NaText(sh[i].Company_Location),
          Standardized_Category |-> NaText(sh[i].Standardized_Category),
          Review_Count          |-> NaCount(sh[i].Review_Count) ] ]

\* ---------------------------------------------------------------- clean

\* dropna with the subset cut down to ['Company Name'].
dropna_name_only(df) == SelectSeq(df, LAMBDA r : r.Company_Name # NaN)

\* raw_df.dropna(subset=['Company Name', 'Standardized Category'])
dropna(df) ==
    SelectSeq(df, LAMBDA r : r.Company_Name # NaN /\ r.Standardized_Category # NaN)

\* Text that parses as a number, and the number it parses to.
NumericText == { "2", "inf" }
ParseText(t) == IF t = "2" THEN IntCell(2) ELSE InfCell

\* pd.to_numeric(cell, errors='coerce')
to_numeric(c) ==
    IF c.k = "str"
    THEN IF c.s \in NumericText THEN ParseText(c.s) ELSE NaNCell
    ELSE c

\* .fillna(0)
fillna(c) == IF c.k = "nan" THEN IntCell(0) ELSE c

\* .astype(int) of a finite value: a float is truncated towards zero.
astype_int(c) ==
    IF c.k = "float"
    THEN IntCell(IF c.n >= 0 THEN c.n \div 2 ELSE 0 - ((0 - c.n) \div 2))
    ELSE c

\* .astype(int) raises on a non-finite value.
astype_raises(df) == \E i \in 1..Len(df) : fillna(to_numeric(df[i].Review_Count)).k = "inf"

company_type_mapping ==
    [ t \in { "Modern/High-Class Private Hospital" } |-> "High-Class Private Hospital" ]

category_mapping ==
    [ c \in { "Slow Services or Lengthy Waiting Times", "Unprofessional Staff",
              "Hostility", "Poor Compensation",
              "Unavailability of Medication/Equipment",
              "Unavailability of Specialist", "Expensive Costs", "Others" } |->
        IF c = "Unavailability of Specialist"
        THEN "Unavailability of Specialists" ELSE c ]

\* Series.replace(mapping): a value that is a key is replaced, any other value
\* (NaN included) is kept.
replace(mapping, v) == IF v \in DOMAIN mapping THEN mapping[v] ELSE v

coerce_count(c) == astype_int(fillna(to_numeric(c)))

\* A mapping that also sends the standard name back to its synonym.
replace_type_both_ways(t) ==
    IF t = "High-Class Private Hospital"
    THEN "Modern/High-Class Private Hospital"
    ELSE replace(company_type_mapping, t)

replace_type(t) == replace(company_type_mapping, t)

replace_category(c) == replace(category_mapping, c)

\* Lines 17-37 on a DataFrame whose counts are all finite.
normalize(df) ==
    LET kept == dropna(df)
    IN  [ i \in 1..Len(kept) |->
            [ kept[i] EXCEPT
                !.Review_Count          = coerce_count(@),
                !.Company_Type          = replace_type(@),
                !.Standardized_Category = replace_category(@) ] ]

\* ---------------------------------------------------------------- inputs

NormNames      == { "A", "" }
NormTypes      == { "Modern/High-Class Private Hospital", "Clinic" }
NormLocations  == { "L1" }
NormCategories == { "Unavailability of Specialist", "Billing", "" }
NormCounts     == { NaNCell, StrCell("abc"), StrCell("inf"),
                    IntCell(0 - 1), FloatCell(3), FloatCell(0 - 3) }

SheetRows(names, types, locations, categories, counts) ==
    [ Company_Name : names, Company_Type : types, Company_Location : locations,
      Standardized_Category : categories, Review_Count : counts ]

Sheets(rows) == UNION { [ 1..n -> rows ] : n \in 0..MaxRows }

NotBuilt == << >>
Unrendered == [ kind |-> "unrendered" ]

InitWith(rows) ==
    /\ sheet \in Sheets(rows)
    /\ raw_df = read_excel(sheet)
    /\ pc = "read"
    /\ passes = 0
    /\ viz_df = NotBuilt
    /\ company_counts = NotBuilt
    /\ reviews_per_type = NotBuilt
    /\ company_breakdown = NotBuilt
    /\ category_reviews = NotBuilt
    /\ reviews_by_type = NotBuilt
    /\ category_dropdown = "Slow Services or Lengthy Waiting Times"
    /\ breakdown_dropdown = "Slow Services or Lengthy Waiting Times"
    /\ category_pie_chart = Unrendered
    /\ company_breakdown_table = Unrendered
    /\ overview_figures = Unrendered
    /\ request_queue = << >>

InitNorm ==
    InitWith(SheetRows(NormNames, NormTypes, NormLocations, NormCategories, NormCounts))

\* Lines 17-37.
Clean ==
    /\ pc = "read"
    /\ IF astype_raises(dropna(raw_df))
       THEN /\ pc' = "error"
            /\ raw_df' = dropna(raw_df)
            /\ passes' = passes
       ELSE /\ pc' = "cleaned"
            /\ raw_df' = normalize(raw_df)
            /\ passes' = passes + 1
    /\ UNCHANGED << sheet, viz_df, company_counts, reviews_per_type,
                    company_breakdown, category_reviews, reviews_by_type,
                    category_dropdown, breakdown_dropdown, category_pie_chart,
                    company_breakdown_table, overview_figures, request_queue >>

\* The cleaned table fed through lines 17-37 once more.
Renormalize ==
    /\ pc = "cleaned"
    /\ passes < MaxPasses
    /\ raw_df' = normalize(raw_df)
    /\ passes' = passes + 1
    /\ UNCHANGED << pc, sheet, viz_df, company_counts, reviews_per_type,
                    company_breakdown, category_reviews, reviews_by_type,
                    category_dropdown, breakdown_dropdown, category_pie_chart,
                    company_breakdown_table, overview_figures, request_queue >>

NextNorm == Clean \/ Renormalize

SpecNorm == InitNorm /\ [][NextNorm]_vars

\* ---------------------------------------------------------------- tables

company_types ==
    << "Government Hospital", "Small Private Hospital", "High-Class Private Hospital" >>

available_categories ==
    << "Slow Services or Lengthy Waiting Times",
       "Unavailability of Medication/Equipment",
       "Unprofessional Staff",
       "Unavailability of Specialists",
       "Poor Compensation",
       "Hostility",
       "Expensive Costs",
       "Others" >>

\* The rows groupby(['Standardized Category', 'Company Type']) puts in a group:
\* a row with a missing key is in no group (dropna=True is the default).
Grouped(df) ==
    SelectSeq(df, LAMBDA r : r.Standardized_Category # NaN /\ r.Company_Type # NaN)

GroupRows(df, cat, type) ==
    SelectSeq(df, LAMBDA r : r.Standardized_Category = cat /\ r.Company_Type = type)

CountsOf(rows) == [ i \in 1..Len(rows) |-> rows[i].Review_Count.n ]

\* nunique of 'Company Name' in place of size().
group_size_distinct(df, cat, type) ==
    Cardinality({ r.Company_Name : r \in Range(GroupRows(df, cat, type)) })

\* .size() of one group: its number of rows.
group_size(df, cat, type) == Len(GroupRows(df, cat, type))

\* size() in place of ['Review Count'].sum().
group_sum_as_size(df, cat, type) == Len(GroupRows(df, cat, type))

\* ['Review Count'].sum() of one group.
group_sum(df, cat, type) == SumSeq(CountsOf(GroupRows(df, cat, type)))

\* A cell of the unstacked table; fill_value=0 fills a (category, type) pair
\* that has no group.
size_cell(df, cat, type) == group_size(df, cat, type)

sum_cell(df, cat, type) ==
    IF GroupRows(df, cat, type) = << >> THEN 0 ELSE group_sum(df, cat, type)

\* The index of the unstacked table: the categories of the groups, ascending.
pivot_index(df) ==
    SortedSeq({ r.Standardized_Category : r \in Range(Grouped(df)) })

\* The columns of the unstacked table: the company types of the groups.
pivot_columns(df) == { r.Company_Type : r \in Range(Grouped(df)) }

\* Lines 59-61 and 76-78 add a column of zeros for a missing company type.
table_columns(df) == pivot_columns(df) \cup Range(company_types)

\* The cells of one row of the unstacked table, with the added columns.
size_cells(df, cat) == [ type \in table_columns(df) |-> size_cell(df, cat, type) ]

sum_cells(df, cat) == [ type \in table_columns(df) |-> sum_cell(df, cat, type) ]

\* company_counts[company_types].sum(axis=1)
row_total(cells) ==
    SumSeq([ j \in 1..Len(company_types) |-> cells[company_types[j]] ])

\* One row of a table: 'Category', a column per company type, 'Total'.
table_row(cat, cells) ==
    [ col \in { "Category", "Total" } \cup DOMAIN cells |->
        IF col = "Category" THEN cat
        ELSE IF col = "Total" THEN row_total(cells)
        ELSE cells[col] ]

\* Lines 44-65.
build_company_counts(df) ==
    LET index == pivot_index(df)
    IN  [ i \in 1..Len(index) |-> table_row(index[i], size_cells(df, index[i])) ]

\* Lines 68-82.
build_reviews_per_type(df) ==
    LET index == pivot_index(df)
    IN  [ i \in 1..Len(index) |-> table_row(index[i], sum_cells(df, index[i])) ]

\* The selection without drop_duplicates().
keep_duplicates(q) == q

RECURSIVE drop_duplicates(_)
\* DataFrame.drop_duplicates(): the first of equal rows is kept (keep='first').
drop_duplicates(q) ==
    IF q = << >> THEN << >>
    ELSE LET init == drop_duplicates(SubSeq(q, 1, Len(q) - 1))
             last == q[Len(q)]
         IN  IF last \in Range(init) THEN init ELSE Append(init, last)

\* viz_df[['Standardized Category', 'Company Name', 'Company Location']]
breakdown_columns(df) ==
    [ i \in 1..Len(df) |->
        [ Standardized_Category |-> df[i].Standardized_Category,
          Company_Name          |-> df[i].Company_Name,
          Company_Location      |-> df[i].Company_Location ] ]

\* x[['Company Name', 'Company Location']].to_dict('records') of one group,
\* whose rows keep the order they have in the DataFrame.
companies_of(pairs, cat) ==
    LET rows == SelectSeq(pairs, LAMBDA r : r.Standardized_Category = cat)
    IN  [ i \in 1..Len(rows) |->
            [ Company_Name     |-> rows[i].Company_Name,
              Company_Location |-> rows[i].Company_Location ] ]

\* Lines 89-93.
build_company_breakdown(df) ==
    LET pairs == drop_duplicates(breakdown_columns(df))
        index == SortedSeq({ r.Standardized_Category : r \in Range(pairs) } \ { NaN })
    IN  [ i \in 1..Len(index) |->
            [ Category |-> index[i], Companies |-> companies_of(pairs, index[i]) ] ]

\* Line 85: one row per category, ascending, with the review counts of all
\* its rows.
build_category_reviews(df) ==
    LET index == SortedSeq({ r.Standardized_Category : r \in Range(df) } \ { NaN })
    IN  [ i \in 1..Len(index) |->
            [ Standardized_Category |-> index[i],
              Review_Count |->
                  SumSeq(CountsOf(SelectSeq(df,
                      LAMBDA r : r.Standardized_Category = index[i]))) ] ]

RECURSIVE Flatten(_)
Flatten(qq) == IF qq = << >> THEN << >> ELSE Head(qq) \o Flatten(Tail(qq))

\* Line 86: one row per (category, company type) group, ascending.
build_reviews_by_type(df) ==
    LET index == pivot_index(df)
        types(cat) ==
            SortedSeq({ r.Company_Type :
                          r \in { g \in Range(Grouped(df)) :
                                    g.Standardized_Category = cat } })
    IN  Flatten([ i \in 1..Len(index) |->
            [ j \in 1..Len(types(index[i])) |->
                [ Standardized_Category |-> index[i],
                  Company_Type |-> types(index[i])[j],
                  Review_Count |-> group_sum(df, index[i], types(index[i])[j]) ] ] ])

\* ---------------------------------------------------------------- callbacks

\* category_orders={'Standardized Category': available_categories}: the rows
\* of the listed categories in the order of the list, then the other rows.
category_orders(rows) ==
    LET listed(r) == r.Standardized_Category \in Range(available_categories)
        at(cat)   == SelectSeq(rows, LAMBDA r : r.Standardized_Category = cat)
    IN  Flatten([ i \in 1..Len(available_categories) |-> at(available_categories[i]) ])
            \o SelectSeq(rows, LAMBDA r : ~ listed(r))

\* Lines 529-618: both figures are drawn from the module-level tables; the
\* hover data is not read.
overview(by_category, by_type, hover_data) ==
    [ kind        |-> "figures",
      pie_fig     |-> category_orders(by_category),
      stacked_fig |-> category_orders(by_type) ]

\* category_data.groupby('Company Type')['Review Count'].sum().reset_index():
\* one row per company type found among the rows, ascending.
category_by_type(df, selected_category) ==
    LET category_data ==
            SelectSeq(df, LAMBDA r : r.Standardized_Category = selected_category)
        types ==
            SortedSeq({ r.Company_Type : r \in Range(category_data) } \ { NaN })
    IN  [ i \in 1..Len(types) |->
            [ Company_Type |-> types[i],
              Review_Count |->
                  SumSeq(CountsOf(SelectSeq(category_data,
                                            LAMBDA r : r.Company_Type = types[i]))) ] ]

\* Lines 624-673: the figure's title, its slices and its centre annotation.
category_pie(df, selected_category) ==
    LET by_type == category_by_type(df, selected_category)
    IN  [ kind          |-> "figure",
          title         |-> selected_category,
          slices        |-> by_type,
          total_reviews |-> SumSeq([ i \in 1..Len(by_type) |-> by_type[i].Review_Count ]) ]

\* Lines 679-750.
breakdown_children(table, selected_category) ==
    LET breakdown == SelectSeq(table, LAMBDA r : r.Category = selected_category)
    IN  IF breakdown = << >>
        THEN [ kind |-> "Div", data |-> << >>,
               text |-> "No companies found for this service category" ]
        ELSE [ kind |-> "DataTable", data |-> breakdown[1].Companies, text |-> "" ]

\* ---------------------------------------------------------------- inputs

DashNames      == { "A", "B" }
DashTypes      == { "Government Hospital", "Modern/High-Class Private Hospital",
                    "Clinic", "" }
DashLocations  == { "L1", "L2" }
DashCategories == { "Hostility", "Unavailability of Specialist", "Billing" }
DashCounts     == { IntCell(1), IntCell(2) }

\* The values a callback is invoked with: dropdown options, and a label that
\* is no option.
CategoryArgs ==
    { available_categories[1], available_categories[4], available_categories[6],
      "Billing" }

\* The hoverData of 'pie-chart': none yet, or the slice under the pointer.
HoverData == { "None", "Hostility" }

Init ==
    InitWith(SheetRows(DashNames, DashTypes, DashLocations, DashCategories, DashCounts))

\* Lines 41-105.  On an empty DataFrame groupby(...).apply(...) of lines 90-92
\* has no group to take the shape of its result from and returns a frame
\* with the columns of its input, so the two-name assignment of line 93
\* raises and the script stops.
Prepare ==
    /\ pc = "cleaned"
    /\ IF raw_df = << >>
       THEN /\ pc' = "error"
            /\ UNCHANGED << viz_df, company_counts, reviews_per_type,
                            company_breakdown, category_reviews, reviews_by_type >>
       ELSE /\ pc' = "ready"
            /\ viz_df' = raw_df
            /\ company_counts' = build_company_counts(raw_df)
            /\ reviews_per_type' = build_reviews_per_type(raw_df)
            /\ company_breakdown' = build_company_breakdown(raw_df)
            /\ category_reviews' = build_category_reviews(raw_df)
            /\ reviews_by_type' = build_reviews_by_type(raw_df)
    /\ UNCHANGED << passes, sheet, raw_df, category_dropdown, breakdown_dropdown,
                    category_pie_chart, company_breakdown_table, overview_figures,
                    request_queue >>

\* The callback with the filtered frame assigned to the module-level viz_df.
update_category_pie_in_place(selected_category) ==
    /\ pc = "ready"
    /\ category_dropdown' = selected_category
    /\ category_pie_chart' = category_pie(viz_df, selected_category)
    /\ viz_df' = SelectSeq(viz_df, LAMBDA r : r.Standardized_Category = selected_category)
    /\ UNCHANGED << pc, passes, sheet, raw_df, company_counts, reviews_per_type,
                    company_breakdown, category_reviews, reviews_by_type,
                    breakdown_dropdown, company_breakdown_table, overview_figures,
                    request_queue >>

\* The callback keeping the figure it drew first and returning it again.
update_category_pie_cached(selected_category) ==
    /\ pc = "ready"
    /\ category_dropdown' = selected_category
    /\ category_pie_chart' = IF category_pie_chart.kind = "figure"
                             THEN category_pie_chart
                             ELSE category_pie(viz_df, selected_category)
    /\ UNCHANGED << pc, passes, sheet, raw_df, viz_df, company_counts, reviews_per_type,
                    company_breakdown, category_reviews, reviews_by_type,
                    breakdown_dropdown, company_breakdown_table, overview_figures,
                    request_queue >>

\* Lines 620-673, run for the value the dropdown has just been given.
update_category_pie(selected_category) ==
    /\ pc = "ready"
    /\ category_dropdown' = selected_category
    /\ category_pie_chart' = category_pie(viz_df, selected_category)
    /\ UNCHANGED << pc, passes, sheet, raw_df, viz_df, company_counts, reviews_per_type,
                    company_breakdown, category_reviews, reviews_by_type,
                    breakdown_dropdown, company_breakdown_table, overview_figures,
                    request_queue >>

\* The callback wired to one shared current category: it also sets the other
\* selector and redraws the other view.
update_company_breakdown_shared(selected_category) ==
    /\ pc = "ready"
    /\ breakdown_dropdown' = selected_category
    /\ company_breakdown_table' = breakdown_children(company_breakdown, selected_category)
    /\ category_dropdown' = selected_category
    /\ category_pie_chart' = category_pie(viz_df, selected_category)
    /\ UNCHANGED << pc, passes, sheet, raw_df, viz_df, company_counts, reviews_per_type,
                    company_breakdown, category_reviews, reviews_by_type,
                    overview_figures, request_queue >>

\* Lines 675-750, run for the value the dropdown has just been given.
update_company_breakdown(selected_category) ==
    /\ pc = "ready"
    /\ breakdown_dropdown' = selected_category
    /\ company_breakdown_table' = breakdown_children(company_breakdown, selected_category)
    /\ UNCHANGED << pc, passes, sheet, raw_df, viz_df, company_counts, reviews_per_type,
                    company_breakdown, category_reviews, reviews_by_type,
                    category_dropdown, category_pie_chart, overview_figures,
                    request_queue >>

\* Lines 524-618, run for a hover over the overview pie chart.
update_figures(hover_data) ==
    /\ pc = "ready"
    /\ overview_figures' = overview(category_reviews, reviews_by_type, hover_data)
    /\ UNCHANGED << pc, passes, sheet, raw_df, viz_df, company_counts, reviews_per_type,
                    company_breakdown, category_reviews, reviews_by_type,
                    category_dropdown, breakdown_dropdown, category_pie_chart,
                    company_breakdown_table, request_queue >>

Next ==
    \/ Clean
    \/ Prepare
    \/ \E h \in HoverData : update_figures(h)
    \/ \E c \in CategoryArgs : update_category_pie(c)
    \/ \E c \in CategoryArgs : update_company_breakdown(c)

Spec == Init /\ [][Next]_vars

\* The script up to the start of the server: no callback runs.  The tables
\* do not read 'Company Location'.
InitTables ==
    InitWith(SheetRows(DashNames, DashTypes, { "L1" }, DashCategories, DashCounts))

NextTables == Clean \/ Prepare

SpecTables == InitTables /\ [][NextTables]_vars

\* The whole dashboard over sheets that vary in what the company directory
\* reads: 'Standardized Category', 'Company Name' and 'Company Location'.
InitDirectory ==
    InitWith(SheetRows(DashNames, { "Government Hospital" }, DashLocations,
                       DashCategories, { IntCell(1) }))

SpecDirectory == InitDirectory /\ [][Next]_vars

\* The whole dashboard over sheets that vary in what the company-type
\* distribution reads: 'Standardized Category', 'Company Type' and
\* 'Review Count'.
InitDistribution ==
    InitWith(SheetRows({ "A" }, DashTypes, { "L1" }, { "Hostility", "Billing" },
                       { NaNCell, IntCell(2) }))

SpecDistribution == InitDistribution /\ [][Next]_vars

\* ---------------------------------------------------------------- requests

\* The callbacks of lines 620-623 and 675-678 are registered with Dash, which
\* sends one request per change of an Input and sets the Output from the
\* response.  The development server of line 753 serves requests on threads
\* of their own, so the responses of two requests may come back in either
\* order.  Dash leaves out the response of a request when a later request
\* for the same Output has been made since.
MaxRequests == 3

Outputs == { "category-pie-chart", "company-breakdown-table" }

RequestArgs == { "Hostility", "Billing" }

InFlight(queue) == { i \in 1..Len(queue) : queue[i].status = "loading" }

never_rejected(queue, i) == FALSE

is_rejected(queue, i) ==
    \E j \in (i + 1)..Len(queue) : queue[j].output = queue[i].output

\* The user picks a value in the dropdown of one of the two outputs.
request_callback(output, value) ==
    /\ pc = "ready"
    /\ Len(request_queue) < MaxRequests
    /\ request_queue' = Append(request_queue,
                               [ output |-> output, value |-> value,
                                 status |-> "loading", finished |-> 0 ])
    /\ IF output = "category-pie-chart"
       THEN category_dropdown' = value /\ UNCHANGED breakdown_dropdown
       ELSE breakdown_dropdown' = value /\ UNCHANGED category_dropdown
    /\ UNCHANGED << pc, passes, sheet, raw_df, viz_df, company_counts, reviews_per_type,
                    company_breakdown, category_reviews, reviews_by_type,
                    category_pie_chart, company_breakdown_table, overview_figures >>

\* The response of request i comes back: the callback's return value for the
\* value the request was made with.
deliver_response(i) ==
    /\ i \in InFlight(request_queue)
    /\ LET req   == request_queue[i]
           order == Len(request_queue) - Cardinality(InFlight(request_queue)) + 1
       IN  IF is_rejected(request_queue, i)
           THEN /\ request_queue' =
                       [ request_queue EXCEPT ![i].status = "rejected",
                                              ![i].finished = order ]
                /\ UNCHANGED << category_pie_chart, company_breakdown_table >>
           ELSE /\ request_queue' =
                       [ request_queue EXCEPT ![i].status = "done",
                                              ![i].finished = order ]
                /\ IF req.output = "category-pie-chart"
                   THEN /\ category_pie_chart' = category_pie(viz_df, req.value)
                        /\ UNCHANGED company_breakdown_table
                   ELSE /\ company_breakdown_table'
                               = breakdown_children(company_breakdown, req.value)
                        /\ UNCHANGED category_pie_chart
    /\ UNCHANGED << pc, passes, sheet, raw_df, viz_df, company_counts, reviews_per_type,
                    company_breakdown, category_reviews, reviews_by_type,
                    category_dropdown, breakdown_dropdown, overview_figures >>

InitConcurrent ==
    InitWith(SheetRows({ "A" }, { "Government Hospital" }, { "L1" },
                       { "Hostility", "Billing" }, { IntCell(1) }))

NextConcurrent ==
    \/ Clean
    \/ Prepare
    \/ \E o \in Outputs : \E c \in RequestArgs : request_callback(o, c)
    \/ \E i \in 1..MaxRequests : deliver_response(i)

SpecConcurrent == InitConcurrent /\ [][NextConcurrent]_vars

\* ---------------------------------------------------------------- normalizer

\* The rows line 14 hands to the cleaning stage.
RawRecords == read_excel(sheet)

Present(v) == v # NaN /\ v # ""

\* C3: after normalization every record's category is one of the 8 fixed
\* categories (a label that is no key of the synonym table becomes a member
\* of the vocabulary).
C3_CategoryInVocabulary ==
    pc = "cleaned" =>
        \A i \in 1..Len(raw_df) :
            raw_df[i].Standardized_Category \in Range(available_categories)

\* C4: every record kept by normalization has a review count that is an
\* integer >= 0, whatever the raw cell held.
C4_CountNonNegative ==
    pc = "cleaned" =>
        \A i \in 1..Len(raw_df) :
            raw_df[i].Review_Count.k = "int" /\ raw_df[i].Review_Count.n >= 0

\* C5: the normalized table holds no record whose company name or category is
\* missing or the empty string, and it holds exactly the raw records that have
\* both, in their original order.
C5_RequiredFieldsPresent ==
    pc = "cleaned" =>
        /\ \A i \in 1..Len(raw_df) :
               Present(raw_df[i].Company_Name) /\ Present(raw_df[i].Standardized_Category)
        /\ \A k \in 1..Len(RawRecords) :
               ( Present(RawRecords[k].Company_Name)
                 /\ Present(RawRecords[k].Standardized_Category) )
               <=> \E i \in 1..Len(raw_df) : raw_df[i].idx = RawRecords[k].idx
        /\ \A i, j \in 1..Len(raw_df) : i < j => raw_df[i].idx < raw_df[j].idx

\* A sheet whose first row has an empty company-name cell and whose second
\* row is complete has been cleaned: only the second row is left.
C5_Witness ==
    /\ pc = "cleaned"
    /\ Len(sheet) = 2
    /\ sheet[1].Company_Name = ""
    /\ Len(raw_df) = 1
    /\ raw_df[1].idx = 1

\* C10: running the normalization steps over their own output changes
\* nothing: after two or more runs raw_df is what one run makes of the input.
C10_NormalizeIdempotent ==
    (pc = "cleaned" /\ passes >= 2) => raw_df = normalize(RawRecords)

\* The steps have run twice over a sheet of which they dropped a row, mapped
\* a company type and a category, and coerced a count.
C10_Witness ==
    /\ pc = "cleaned"
    /\ passes = 2
    /\ Len(sheet) = 2
    /\ Len(raw_df) = 1
    /\ raw_df[1].Company_Type = "High-Class Private Hospital"
    /\ raw_df[1].Standardized_Category = "Unavailability of Specialists"
    /\ raw_df[1].Review_Count # RawRecords[raw_df[1].idx + 1].Review_Count

\* ---------------------------------------------------------------- tables

FixedType(r) == r.Company_Type \in Range(company_types)

CategoryColumn(table) == [ i \in 1..Len(table) |-> table[i]["Category"] ]

\* The sum of a row's three fixed company-type cells.
FixedCells(row) ==
    row["Government Hospital"] + row["Small Private Hospital"]
        + row["High-Class Private Hospital"]

\* The canonical records of a category and a company type.
Records(cat, type) ==
    { i \in 1..Len(raw_df) :
        raw_df[i].Standardized_Category = cat /\ raw_df[i].Company_Type = type }

\* C1: in every row of the company-count table (the rows of the 8 fixed
\* categories among them) Total is the sum of the three fixed company-type
\* cells, and the Totals add up to the number of canonical records whose
\* company type is one of the three.
C1_TotalsAddUp ==
    pc = "ready" =>
        /\ \A i \in 1..Len(company_counts) :
               company_counts[i]["Total"] = FixedCells(company_counts[i])
        /\ SumSeq([ i \in 1..Len(company_counts) |-> company_counts[i]["Total"] ])
               = Cardinality({ i \in 1..Len(raw_df) : FixedType(raw_df[i]) })

\* The table has the row of a fixed category made of one record of a fixed
\* type and one record of another type, which is in no Total.
C1_Witness ==
    /\ pc = "ready"
    /\ Len(raw_df) = 2
    /\ \E i \in 1..Len(company_counts) :
           /\ company_counts[i]["Category"] = "Hostility"
           /\ company_counts[i]["Government Hospital"] = 1
           /\ "Clinic" \in DOMAIN company_counts[i]
           /\ company_counts[i]["Clinic"] = 1
           /\ company_counts[i]["Total"] = 1

\* C2: both tables have exactly the 8 fixed categories as their rows, in the
\* fixed order, whatever the records are.
C2_EightRowsInFixedOrder ==
    pc = "ready" =>
        /\ CategoryColumn(company_counts) = available_categories
        /\ CategoryColumn(reviews_per_type) = available_categories

\* C6: a cell of the company-count table is the number of distinct companies
\* among the records of its category and company type.
C6_DistinctCompanies ==
    pc = "ready" =>
        \A i \in 1..Len(company_counts) : \A j \in 1..Len(company_types) :
            company_counts[i][company_types[j]]
                = Cardinality({ raw_df[k].Company_Name :
                                  k \in Records(company_counts[i]["Category"],
                                                company_types[j]) })

\* C7: the fixed company-type cells of the review-total table add up to the
\* review counts of the canonical records whose company type is one of the
\* three.
C7_ReviewGrandTotal ==
    pc = "ready" =>
        SumSeq([ i \in 1..Len(reviews_per_type) |-> FixedCells(reviews_per_type[i]) ])
            = SumSeq(CountsOf(SelectSeq(raw_df, FixedType)))

\* The review-total table has two rows, one record of a fixed type in each,
\* with different review counts.
C7_Witness ==
    /\ pc = "ready"
    /\ Len(reviews_per_type) = 2
    /\ FixedCells(reviews_per_type[1]) = 1
    /\ FixedCells(reviews_per_type[2]) = 2

\* ---------------------------------------------------------------- callbacks

SliceOf(figure, type) ==
    { i \in 1..Len(figure.slices) : figure.slices[i].Company_Type = type }

\* C8: the distribution of the selected category has an entry for each of the
\* three fixed company types, holding the review-count sum of the category's
\* records of that type (0 when there is none), and a total of 0 when no
\* record matches the category.
C8_EntryPerFixedType ==
    category_pie_chart.kind = "figure" =>
        /\ \A j \in 1..Len(company_types) :
               \E i \in SliceOf(category_pie_chart, company_types[j]) :
                   category_pie_chart.slices[i].Review_Count
                       = SumSeq(CountsOf(GroupRows(viz_df, category_dropdown,
                                                   company_types[j])))
        /\ (\A k \in 1..Len(viz_df) :
                viz_df[k].Standardized_Category # category_dropdown)
               => category_pie_chart.total_reviews = 0

Pair(r) == [ Company_Name |-> r.Company_Name, Company_Location |-> r.Company_Location ]

\* Where the records of the selected category are in the canonical set.
Selected == { k \in 1..Len(viz_df) : viz_df[k].Standardized_Category = breakdown_dropdown }

FirstSeen(pair) ==
    CHOOSE k \in Selected :
        /\ Pair(viz_df[k]) = pair
        /\ \A m \in Selected : Pair(viz_df[m]) = pair => k <= m

\* C9: the directory shown for the selected category holds the (name,
\* location) pairs of the category's records, each once, ordered by first
\* occurrence; with no record of the category it is the 'no companies' state.
C9_DirectoryFirstSeenOrder ==
    company_breakdown_table.kind # "unrendered" =>
        LET directory == company_breakdown_table.data
        IN  /\ Range(directory) = { Pair(viz_df[k]) : k \in Selected }
            /\ \A i, j \in 1..Len(directory) :
                   i < j => FirstSeen(directory[i]) < FirstSeen(directory[j])
            /\ company_breakdown_table.kind
                   = IF Selected = {} THEN "Div" ELSE "DataTable"
            /\ Selected = {} =>
                   company_breakdown_table.text
                       = "No companies found for this service category"

\* The directory of a category is shown whose two records are the same
\* company at the same location: one entry.
C9_Witness ==
    /\ company_breakdown_table.kind = "DataTable"
    /\ Cardinality(Selected) = 2
    /\ Len(company_breakdown_table.data) = 1

\* ---------------------------------------------------------------- events

\* C11: a step that changes the directory selector or the directory view
\* leaves the distribution selector and the distribution view as they are,
\* and a step that changes the distribution selector or view leaves the
\* directory selector and view as they are.
C11_ViewIndependence ==
    [][ /\ ( breakdown_dropdown' # breakdown_dropdown
             \/ company_breakdown_table' # company_breakdown_table )
           => UNCHANGED << category_dropdown, category_pie_chart >>
        /\ ( category_dropdown' # category_dropdown
             \/ category_pie_chart' # category_pie_chart )
           => UNCHANGED << breakdown_dropdown, company_breakdown_table >> ]_vars

\* Both selectors have been changed, to different categories, and each view
\* shows its own selection.
C11_Witness ==
    /\ category_pie_chart.kind = "figure"
    /\ company_breakdown_table.kind = "DataTable"
    /\ category_dropdown # breakdown_dropdown
    /\ category_dropdown # "Slow Services or Lengthy Waiting Times"
    /\ breakdown_dropdown # "Slow Services or Lengthy Waiting Times"
    /\ category_pie_chart.title = category_dropdown

\* C14: once the script has built them, no event changes the canonical
\* record set, the company-count table or the review-total table.
C14_TablesReadOnly ==
    [][ pc = "ready" =>
            UNCHANGED << raw_df, viz_df, company_counts, reviews_per_type >> ]_vars

\* The tables are built and not empty, and a hover and a change of each
\* selector have been handled.
C14_Witness ==
    /\ pc = "ready"
    /\ company_counts # << >>
    /\ reviews_per_type # << >>
    /\ overview_figures.kind = "figures"
    /\ category_pie_chart.kind = "figure"
    /\ company_breakdown_table.kind # "unrendered"

\* The records of the canonical set that the distribution of a category
\* reads: those of the category whose company type is not missing.
Typed(category) ==
    SelectSeq(viz_df, LAMBDA r : /\ r.Standardized_Category = category
                                 /\ r.Company_Type # NaN)

\* C12: once a selection change has been handled, the distribution view is
\* the distribution of the canonical set for the category its selector now
\* holds, and the directory view is the directory of the canonical set for
\* the category its selector now holds, whatever was selected or shown before.
C12_NoStaleness ==
    /\ category_pie_chart.kind = "figure" =>
           LET slices == category_pie_chart.slices
               typed  == Typed(category_dropdown)
           IN  /\ category_pie_chart.title = category_dropdown
               /\ { slices[i].Company_Type : i \in 1..Len(slices) }
                      = { r.Company_Type : r \in Range(typed) }
               /\ \A i \in 1..Len(slices) :
                      slices[i].Review_Count
                          = SumSeq(CountsOf(SelectSeq(typed,
                                LAMBDA r : r.Company_Type = slices[i].Company_Type)))
               /\ category_pie_chart.total_reviews = SumSeq(CountsOf(typed))
    /\ company_breakdown_table.kind # "unrendered" =>
           company_breakdown_table
               = breakdown_children(build_company_breakdown(viz_df), breakdown_dropdown)

\* Each selector has been changed at least twice: the views shown are for
\* categories with different records, after other views had been shown.
C12_Witness ==
    /\ category_pie_chart.kind = "figure"
    /\ company_breakdown_table.kind = "DataTable"
    /\ category_dropdown = "Billing"
    /\ breakdown_dropdown = "Hostility"
    /\ category_pie_chart.total_reviews = 2
    /\ \E k \in 1..Len(viz_df) :
           /\ viz_df[k].Standardized_Category = "Hostility"
           /\ viz_df[k].Review_Count = IntCell(0)

\* The requests made for an output, in the order they were made.
RequestsFor(output) ==
    { i \in 1..Len(request_queue) : request_queue[i].output = output }

Latest(output) == CHOOSE i \in RequestsFor(output) : \A j \in RequestsFor(output) : j <= i

\* What an output shows, and what the callback returns for a value.
Shown(output) ==
    IF output = "category-pie-chart" THEN category_pie_chart ELSE company_breakdown_table

ViewFor(output, value) ==
    IF output = "category-pie-chart"
    THEN category_pie(viz_df, value)
    ELSE breakdown_children(company_breakdown, value)

OfCategory(category) ==
    SelectSeq(viz_df, LAMBDA r : r.Standardized_Category = category)

\* C15: the grand total of the distribution shown for a category is the sum
\* of the review counts of all canonical records of the category, whatever
\* their company type; the Total of the category's row of the review-total
\* table is the sum of its three fixed company-type cells; and the two are
\* equal exactly when no record of the category has a company type outside
\* the fixed three.
C15_TotalsAcrossViews ==
    category_pie_chart.kind = "figure" =>
        LET all     == OfCategory(category_dropdown)
            outside == SelectSeq(all, LAMBDA r : ~FixedType(r))
        IN  /\ category_pie_chart.total_reviews = SumSeq(CountsOf(all))
            /\ \A i \in 1..Len(reviews_per_type) :
                   reviews_per_type[i]["Category"] = category_dropdown =>
                       /\ reviews_per_type[i]["Total"] = FixedCells(reviews_per_type[i])
                       /\ ( category_pie_chart.total_reviews = reviews_per_type[i]["Total"]
                            <=> outside = << >> )

====
